---------------------------- MODULE Spec2Model ----------------------------
(***************************************************************************)
(* A model of the CHIP-8 interpreter core of chip8_rs (src/src/cpu.rs).    *)
(* The machine is the struct Chip8; the one operation with behaviour is    *)
(* Chip8::execute(opcode), which decodes the opcode, runs the matching arm *)
(* and then updates the two timers.  A Rust panic aborts the call where it *)
(* is raised; the fields written before it keep their new values.          *)
(***************************************************************************)
EXTENDS Integers, Sequences, FiniteSets, TLC

VARIABLES
    ram,          \* [u8; 4096]
    vram,         \* [u8; 64 * 32]
    stack,        \* [u16; 16]
    sp,           \* usize
    v,            \* [u8; 16]
    i,            \* u16
    pc,           \* usize
    delay_timer,  \* u8
    sound_timer,  \* u8
    key,          \* u16
    build,        \* "debug" (overflow checks on) or "release" (checks off)
    panicked,     \* the last call ended in a panic: the run is aborted
    beep,         \* the last call printed "BEEP!" on stdout
    diag,         \* the last call printed "Unknown opcode" on stderr
    opcode,       \* the argument of the last execute call, -1 before the first
    prev,         \* the machine registers as they were when the last call began
    io,           \* the last call made, what it was given and what it returned
    hist          \* bookkeeping of the run: calls made, timer loads and updates

vars == <<ram, vram, stack, sp, v, i, pc, delay_timer, sound_timer, key,
          build, panicked, beep, diag, opcode, prev, io, hist>>

----------------------------------------------------------------------------
(* Sizes and widths fixed by the struct declaration.                       *)

RamSize == 4096
VramSize == 2048
StackSize == 16
NumRegs == 16
U8 == 256
U16 == 65536
ProgramStart == 512
(* usize::MAX, the value 0usize - 1 wraps to when overflow checks are off.  *)
(* It is written as the two's-complement reading of the all-ones word: the *)
(* model checker's integers are narrower than usize.  Every index test     *)
(* below treats a negative index as lying past the end of the array.       *)
USizeMax == -1

Max(a, b) == IF a >= b THEN a ELSE b

(* Bitwise operators on naturals, bit by bit.                              *)
RECURSIVE BitAnd(_, _)
BitAnd(a, b) ==
    IF a = 0 \/ b = 0 THEN 0
    ELSE (a % 2) * (b % 2) + 2 * BitAnd(a \div 2, b \div 2)

RECURSIVE BitOr(_, _)
BitOr(a, b) ==
    IF a = 0 THEN b
    ELSE IF b = 0 THEN a
    ELSE Max(a % 2, b % 2) + 2 * BitOr(a \div 2, b \div 2)

RECURSIVE BitXor(_, _)
BitXor(a, b) ==
    IF a = 0 THEN b
    ELSE IF b = 0 THEN a
    ELSE ((a + b) % 2) + 2 * BitXor(a \div 2, b \div 2)

RECURSIVE Pow2(_)
Pow2(n) == IF n = 0 THEN 1 ELSE 2 * Pow2(n - 1)

(* The operand fields the arms of execute cut out of the opcode.           *)
Family(op) == (op \div 4096) * 4096          \* opcode & 0xF000
LowByte(op) == op % 256                       \* opcode & 0x00FF
LowNibble(op) == op % 16                      \* opcode & 0x000F
NNN(op) == op % 4096                          \* opcode & 0x0FFF
XOf(op) == (op \div 256) % 16                 \* (opcode & 0x0F00) >> 8
YOf(op) == (op \div 16) % 16                  \* (opcode & 0x00F0) >> 4


----------------------------------------------------------------------------
(* The machine as one value: the fields of Chip8 and what the call under   *)
(* way has reported so far.                                                *)

Self ==
    [ram |-> ram, vram |-> vram, stack |-> stack, sp |-> sp, v |-> v, i |-> i,
     pc |-> pc, delay_timer |-> delay_timer, sound_timer |-> sound_timer,
     key |-> key, panic |-> FALSE, beep |-> FALSE, diag |-> FALSE]

(* Chip8::new                                                              *)
New ==
    [ram |-> [a \in 0..(RamSize - 1) |-> 0],
     vram |-> [a \in 0..(VramSize - 1) |-> 0],
     stack |-> [k \in 0..(StackSize - 1) |-> 0],
     sp |-> 0,
     v |-> [r \in 0..(NumRegs - 1) |-> 0],
     i |-> 0,
     pc |-> ProgramStart,
     delay_timer |-> 0,
     sound_timer |-> 0,
     key |-> 0,
     panic |-> FALSE, beep |-> FALSE, diag |-> FALSE]

(* A panic: the call stops here, with the fields as they are.              *)
Panic(m) == [m EXCEPT !.panic = TRUE]

(* Array indexing is bounds-checked in every build.                        *)
InBounds(idx, len) == idx >= 0 /\ idx < len

(* Chip8::next                                                             *)
next(m) == [m EXCEPT !.pc = @ + 2]

(* overflowing_add with the carry tested one too high.                     *)
OverflowingAddLateCarry(a, b) == [val |-> (a + b) % U8, flag |-> a + b > U8]

(* u8::overflowing_add, u8::overflowing_sub, u8::wrapping_add              *)
OverflowingAdd(a, b) == [val |-> (a + b) % U8, flag |-> a + b >= U8]
OverflowingSub(a, b) == [val |-> (a - b + U8) % U8, flag |-> a < b]
WrappingAdd(a, b) == (a + b) % U8

(* "if borrow { 1 } else { 0 }" and "if carry { 1 } else { 0 }"            *)
FlagByte(f) == IF f THEN 1 ELSE 0

(* An "Unknown opcode" arm that also steps over the word.                  *)
UnknownOpcodeAdvances(m) == next([m EXCEPT !.diag = TRUE])

(* The eprintln! of an arm that matches no instruction.                    *)
UnknownOpcode(m) == [m EXCEPT !.diag = TRUE]

(* The body shared by the conditional skips: "if cond { pc += 2; next() }" *)
SkipIf(m, cond) == IF cond THEN next([m EXCEPT !.pc = @ + 2]) ELSE m

(* 00EE: "self.sp -= 1; self.pc = self.stack[self.sp]"                     *)
Op00EE(m, bld) ==
    IF m.sp = 0
    THEN IF bld = "debug"
         THEN Panic(m)                              \* subtract with overflow
         ELSE Panic([m EXCEPT !.sp = USizeMax])     \* wraps, then stack[MAX]
    ELSE IF ~InBounds(m.sp - 1, StackSize)
         THEN Panic([m EXCEPT !.sp = @ - 1])
         ELSE [m EXCEPT !.sp = @ - 1, !.pc = m.stack[m.sp - 1]]

(* 2NNN: "stack[sp] = pc as u16; sp += 1; pc = NNN"                        *)
Op2NNN(m, op) ==
    IF ~InBounds(m.sp, StackSize)
    THEN Panic(m)
    ELSE [m EXCEPT !.stack[m.sp] = m.pc % U16, !.sp = @ + 1, !.pc = NNN(op)]

(* The test of EXE9 / EXA1: "self.key & (1 << self.v[x])"; -1 stands for   *)
(* the panic of a shift by 16 or more in a build that checks shifts, and a *)
(* build that does not check them masks the amount to four bits.           *)
KeyBit(m, x, bld) ==
    IF m.v[x] >= 16 /\ bld = "debug"
    THEN -1
    ELSE BitAnd(m.key, Pow2(m.v[x] % 16))

(* The register write shared by the arms of family 8 that report in VF:    *)
(* "self.v[x] = val; self.v[0xF] = flag", in that order.                   *)
SetWithFlag(m, x, val, flag) ==
    [m EXCEPT !.v = [[m.v EXCEPT ![x] = val] EXCEPT ![15] = flag]]

(* The flag-first order of the shifts: "self.v[0xF] = bit; self.v[x] = .." *)
(* where the new VX is computed from the registers after the flag write.   *)
Op8XY6(m, x) ==
    LET f == [m.v EXCEPT ![15] = m.v[x] % 2]
    IN  next([m EXCEPT !.v = [f EXCEPT ![x] = f[x] \div 2]])

Op8XYE(m, x) ==
    LET f == [m.v EXCEPT ![15] = BitAnd(m.v[x], 128) \div 128]
    IN  next([m EXCEPT !.v = [f EXCEPT ![x] = (f[x] * 2) % U8]])

(* 8XY4, 8XY5, 8XY7                                                        *)
Op8XY4(m, x, y) ==
    LET r == OverflowingAdd(m.v[x], m.v[y])
    IN  next(SetWithFlag(m, x, r.val, FlagByte(r.flag)))

Op8XY5(m, x, y) ==
    LET r == OverflowingSub(m.v[x], m.v[y])
    IN  next(SetWithFlag(m, x, r.val, FlagByte(r.flag)))

Op8XY7(m, x, y) ==
    LET r == OverflowingSub(m.v[y], m.v[x])
    IN  next(SetWithFlag(m, x, r.val, FlagByte(r.flag)))

(* Family 8: "match opcode & 0x000F"                                       *)
Op8(m, op) ==
    LET x == XOf(op)
        y == YOf(op)
        n == LowNibble(op)
    IN  CASE n = 0 -> next([m EXCEPT !.v[x] = m.v[y]])
          [] n = 1 -> next([m EXCEPT !.v[x] = BitOr(m.v[x], m.v[y])])
          [] n = 2 -> next([m EXCEPT !.v[x] = BitAnd(m.v[x], m.v[y])])
          [] n = 3 -> next([m EXCEPT !.v[x] = BitXor(m.v[x], m.v[y])])
          [] n = 4 -> Op8XY4(m, x, y)
          [] n = 5 -> Op8XY5(m, x, y)
          [] n = 6 -> Op8XY6(m, x)
          [] n = 7 -> Op8XY7(m, x, y)
          [] n = 14 -> Op8XYE(m, x)
          [] OTHER -> UnknownOpcode(m)

(* Family 0: "match opcode & 0x00FF"; 00E0 has an empty body.              *)
Op0(m, op, bld) ==
    CASE LowByte(op) = 224 -> m
      [] LowByte(op) = 238 -> Op00EE(m, bld)
      [] OTHER -> UnknownOpcode(m)

(* Family E: "match opcode & 0x00FF" with the arms 0x00E9 and 0x00A1.      *)
OpE(m, op, bld) ==
    LET bit == KeyBit(m, XOf(op), bld)
    IN  CASE LowByte(op) = 233 ->
               IF bit = -1 THEN Panic(m) ELSE SkipIf(m, bit # 0)
          [] LowByte(op) = 161 ->
               IF bit = -1 THEN Panic(m) ELSE SkipIf(m, bit = 0)
          [] OTHER -> UnknownOpcode(m)

(* Stores bytes[1..] at ram[addr..], one cell after the other; the first   *)
(* cell past the end of ram panics, the cells before it stay written.      *)
RECURSIVE Store(_, _, _)
Store(m, addr, bytes) ==
    IF bytes = <<>> THEN m
    ELSE IF ~InBounds(addr, RamSize) THEN Panic(m)
    ELSE Store([m EXCEPT !.ram[addr] = Head(bytes)], addr + 1, Tail(bytes))

(* Loads v[j..top] from ram[i + j ..], one register after the other.       *)
RECURSIVE Load(_, _, _)
Load(m, j, top) ==
    IF j > top THEN m
    ELSE IF ~InBounds(m.i + j, RamSize) THEN Panic(m)
    ELSE Load([m EXCEPT !.v[j] = m.ram[m.i + j]], j + 1, top)

(* FX33 storing the ones digit first.                                      *)
OpFX33OnesFirst(m, x) ==
    LET s == Store(m, m.i,
                   <<(m.v[x] % 100) % 10, (m.v[x] \div 10) % 10, m.v[x] \div 100>>)
    IN  IF s.panic THEN s ELSE next(s)

(* FX33                                                                    *)
OpFX33(m, x) ==
    LET s == Store(m, m.i,
                   <<m.v[x] \div 100, (m.v[x] \div 10) % 10, (m.v[x] % 100) % 10>>)
    IN  IF s.panic THEN s ELSE next(s)

(* FX55                                                                    *)
OpFX55(m, x) ==
    LET s == Store(m, m.i, [j \in 1..(x + 1) |-> m.v[j - 1]])
    IN  IF s.panic THEN s ELSE next(s)

(* FX65 with the range "0..x" in place of "0..=x".                         *)
OpFX65Exclusive(m, x) ==
    LET s == Load(m, 0, x - 1)
    IN  IF s.panic THEN s ELSE next(s)

(* FX65                                                                    *)
OpFX65(m, x) ==
    LET s == Load(m, 0, x)
    IN  IF s.panic THEN s ELSE next(s)

(* Family F: "match opcode & 0x00FF"; FX0A and FX29 have empty bodies and  *)
(* FX1E does not call next.                                                *)
OpF(m, op) ==
    LET x == XOf(op)
        b == LowByte(op)
    IN  CASE b = 7 -> next([m EXCEPT !.v[x] = m.delay_timer])
          [] b = 10 -> m
          [] b = 21 -> next([m EXCEPT !.delay_timer = m.v[x]])
          [] b = 24 -> next([m EXCEPT !.sound_timer = m.v[x]])
          [] b = 30 -> [m EXCEPT !.i = (m.i + m.v[x]) % U16]
          [] b = 41 -> m
          [] b = 51 -> OpFX33(m, x)
          [] b = 85 -> OpFX55(m, x)
          [] b = 101 -> OpFX65(m, x)
          [] OTHER -> UnknownOpcode(m)

(* CXNN: "nn.wrapping_add(Rand::random_u8().unwrap())"; r is the byte the  *)
(* entropy source gave, or -1 when it gave none and unwrap panics.         *)
OpCXNN(m, op, r) ==
    IF r = -1 THEN Panic(m)
    ELSE next([m EXCEPT !.v[XOf(op)] = WrappingAdd(LowByte(op), r)])

(* The match of execute on "opcode & 0xF000".                              *)
Dispatch(m, op, r, bld) ==
    LET f == Family(op) \div 4096
        x == XOf(op)
        y == YOf(op)
    IN  CASE f = 0 -> Op0(m, op, bld)
          [] f = 1 -> [m EXCEPT !.pc = NNN(op)]
          [] f = 2 -> Op2NNN(m, op)
          [] f = 3 -> SkipIf(m, m.v[x] = LowByte(op))
          [] f = 4 -> SkipIf(m, m.v[x] # LowByte(op))
          [] f = 5 -> SkipIf(m, m.v[x] = m.v[y])
          [] f = 6 -> next([m EXCEPT !.v[x] = LowByte(op)])
          [] f = 7 -> next([m EXCEPT !.v[x] = WrappingAdd(m.v[x], LowByte(op))])
          [] f = 8 -> Op8(m, op)
          [] f = 9 -> SkipIf(m, m.v[x] # m.v[y])
          [] f = 10 -> next([m EXCEPT !.i = NNN(op)])
          [] f = 11 -> [m EXCEPT !.pc = (NNN(op) + m.v[0]) % U16]
          [] f = 12 -> OpCXNN(m, op, r)
          [] f = 13 -> m
          [] f = 14 -> OpE(m, op, bld)
          [] f = 15 -> OpF(m, op)

(* A timer decrement without the test for zero, wrapping as u8 does.       *)
DecTimerWraps(t) == (t + U8 - 1) % U8

(* One timer of the "Update timers" block: "if t > 0 { t -= 1 }"           *)
DecTimer(t) == IF t > 0 THEN t - 1 ELSE t

(* A beep on every update that finds the sound timer running.             *)
BeepsWhileRunning(t) == t >= 1

(* "if self.sound_timer == 1 { println!("BEEP!") }"                        *)
Beeps(t) == t = 1

(* A timer update that forgets the delay timer.                            *)
UpdateTimersSoundOnly(m) ==
    [m EXCEPT !.beep = m.sound_timer > 0 /\ Beeps(m.sound_timer),
              !.sound_timer = DecTimer(m.sound_timer)]

(* The block that ends execute.                                            *)
UpdateTimers(m) ==
    [m EXCEPT !.delay_timer = DecTimer(m.delay_timer),
              !.beep = m.sound_timer > 0 /\ Beeps(m.sound_timer),
              !.sound_timer = DecTimer(m.sound_timer)]

(* Chip8::execute: the arm, then the timers unless the arm panicked.       *)
Exec(m, op, r, bld) ==
    LET d == Dispatch(m, op, r, bld)
    IN  IF d.panic THEN d ELSE UpdateTimers(d)

----------------------------------------------------------------------------
(* The state machine.                                                      *)

(* What the entropy source can hand to one call: a byte, or nothing (-1)   *)
(* when /dev/urandom cannot be opened.  Only CXNN draws from it.           *)
EntropyBytes == {0, 1, 15, 255}
Entropy(op) == IF Family(op) = 49152 THEN EntropyBytes \cup {-1} ELSE {0}

(* The registers of the machine as a call finds them, and the timers as    *)
(* the "Update timers" block of that call finds them (ticked: the call     *)
(* reached the block).                                                     *)
Snapshot(m, d) ==
    [pc |-> m.pc, sp |-> m.sp, v |-> m.v, i |-> m.i, stack |-> m.stack,
     key |-> m.key, delay_timer |-> m.delay_timer,
     sound_timer |-> m.sound_timer,
     ticked |-> ~d.panic, tick_delay |-> d.delay_timer,
     tick_sound |-> d.sound_timer]

(* The bookkeeping of a run: the calls made, the value last loaded into    *)
(* each timer (0 by new, VX by FX15 / FX18) and the timer updates that ran *)
(* since, the loading call's own update included; the addresses of the     *)
(* 2NNN instructions not yet returned from (innermost last) and the one    *)
(* the last 00EE returned from (-1: none); the "BEEP!" lines printed and   *)
(* the timer updates that found the sound timer at 1; the registers, I and *)
(* X of the last FX55 that returned, whether only register instructions    *)
(* (families 6, 7, 8) ran since (dumplive), and whether the last call was  *)
(* an FX65 that read that dump back with the same X and I (reload).        *)
Record(h, m, op, d) ==
    LET loadsDelay == Family(op) = 61440 /\ LowByte(op) = 21
        loadsSound == Family(op) = 61440 /\ LowByte(op) = 24
        calls == Family(op) = 8192 /\ ~d.panic
        returns == op = 238 /\ ~d.panic /\ h.sites # <<>>
        t == IF d.panic THEN 0 ELSE 1
        dumps == Family(op) = 61440 /\ LowByte(op) = 85 /\ ~d.panic
        loads == Family(op) = 61440 /\ LowByte(op) = 101 /\ ~d.panic
    IN  [steps |-> h.steps + 1,
         dumpx |-> IF dumps THEN XOf(op) ELSE h.dumpx,
         dumpi |-> IF dumps THEN m.i ELSE h.dumpi,
         dumpv |-> IF dumps THEN m.v ELSE h.dumpv,
         dumplive |-> dumps \/ (h.dumplive /\ Family(op) \in {24576, 28672, 32768}),
         reload |-> loads /\ h.dumplive /\ XOf(op) = h.dumpx /\ m.i = h.dumpi,
         sites |-> IF calls THEN Append(h.sites, m.pc)
                   ELSE IF returns THEN SubSeq(h.sites, 1, Len(h.sites) - 1)
                   ELSE h.sites,
         site |-> IF returns THEN h.sites[Len(h.sites)] ELSE -1,
         dload |-> IF loadsDelay THEN m.v[XOf(op)] ELSE h.dload,
         dticks |-> IF loadsDelay THEN t ELSE h.dticks + t,
         sload |-> IF loadsSound THEN m.v[XOf(op)] ELSE h.sload,
         sticks |-> IF loadsSound THEN t ELSE h.sticks + t,
         beeps |-> h.beeps + (IF ~d.panic /\ UpdateTimers(d).beep THEN 1 ELSE 0),
         expired |-> h.expired + (IF ~d.panic /\ d.sound_timer = 1 THEN 1 ELSE 0)]

Init ==
    /\ ram = New.ram
    /\ vram = New.vram
    /\ stack = New.stack
    /\ sp = New.sp
    /\ v = New.v
    /\ i = New.i
    /\ pc = New.pc
    /\ delay_timer = New.delay_timer
    /\ sound_timer = New.sound_timer
    /\ key = New.key
    /\ build \in {"debug", "release"}
    /\ panicked = FALSE
    /\ beep = FALSE
    /\ diag = FALSE
    /\ opcode = -1
    /\ prev = Snapshot(New, New)
    /\ io = [last |-> "new", entropy |-> -1, fetched |-> -1, image |-> <<>>]
    /\ hist = [steps |-> 0, dumpx |-> 0, dumpi |-> 0, dumpv |-> New.v,
               dumplive |-> FALSE, reload |-> FALSE, sites |-> <<>>, site |-> -1, dload |-> 0, dticks |-> 0, sload |-> 0,
               sticks |-> 0, beeps |-> 0, expired |-> 0]

(* A call of execute(op).  A panic aborts the run: nothing is called after *)
(* it.                                                                     *)
Execute(op) ==
    /\ ~panicked
    /\ \E r \in Entropy(op) :
          LET d == Dispatch(Self, op, r, build)
              t == Exec(Self, op, r, build)
          IN  /\ ram' = t.ram
              /\ vram' = t.vram
              /\ stack' = t.stack
              /\ sp' = t.sp
              /\ v' = t.v
              /\ i' = t.i
              /\ pc' = t.pc
              /\ delay_timer' = t.delay_timer
              /\ sound_timer' = t.sound_timer
              /\ key' = t.key
              /\ panicked' = t.panic
              /\ beep' = t.beep
              /\ diag' = t.diag
              /\ opcode' = op
              /\ prev' = Snapshot(Self, d)
              /\ io' = [io EXCEPT !.last = "execute",
                                  !.entropy = IF Family(op) = 49152 THEN r ELSE -1]
              /\ hist' = Record(hist, Self, op, d)
              /\ UNCHANGED build

(* The fields of the machine, for the calls that leave some of them alone. *)
machine == <<ram, vram, stack, sp, v, i, pc, delay_timer, sound_timer, key>>

(* Chip8::fetch_opcode: "(ram[pc] as u16) << 8 | ram[pc + 1] as u16"; the  *)
(* call panics when pc or pc + 1 is no index of ram.                       *)
FetchOpcode ==
    /\ ~panicked
    /\ LET ok == InBounds(pc, RamSize) /\ InBounds(pc + 1, RamSize)
       IN  /\ panicked' = ~ok
           /\ io' = [io EXCEPT !.last = "fetch_opcode",
                               !.fetched = IF ok THEN ram[pc] * 256 + ram[pc + 1]
                                           ELSE -1]
    /\ hist' = [hist EXCEPT !.steps = @ + 1]
    /\ UNCHANGED <<machine, build, beep, diag, opcode, prev>>

(* The 80 bytes of Fontset::new().data: the sixteen 5-byte hexadecimal     *)
(* glyphs of the CHIP-8 font.                                              *)
FontsetData ==
    <<240, 144, 144, 144, 240,   32, 96, 32, 32, 112,
      240, 16, 240, 128, 240,    240, 16, 240, 16, 240,
      144, 144, 240, 16, 16,     240, 128, 240, 16, 240,
      240, 128, 240, 144, 240,   240, 16, 32, 64, 64,
      240, 144, 240, 144, 240,   240, 144, 240, 16, 240,
      240, 144, 240, 144, 144,   224, 144, 224, 144, 224,
      240, 128, 128, 128, 240,   224, 144, 144, 144, 224,
      240, 128, 240, 128, 240,   240, 128, 240, 128, 128>>

FontSize == 80

(* Chip8::initialize: "pc = 0x200; for i in 0..80 { ram[i] = data[i] }"    *)
Initialize ==
    /\ ~panicked
    /\ pc' = ProgramStart
    /\ ram' = [a \in 0..(RamSize - 1) |->
                 IF a < FontSize THEN FontsetData[a + 1] ELSE ram[a]]
    /\ io' = [io EXCEPT !.last = "initialize"]
    /\ hist' = [hist EXCEPT !.steps = @ + 1]
    /\ UNCHANGED <<vram, stack, sp, v, i, delay_timer, sound_timer, key,
                   build, panicked, beep, diag, opcode, prev>>

(* Chip8::load_game: the argument is not read; "let buffer_size = 512;     *)
(* for i in 0..buffer_size { ram[i + 0x200] = 0 }".  image is the program  *)
(* image the caller wants loaded.                                          *)
BufferSize == 512
LoadGame(image) ==
    /\ ~panicked
    /\ ram' = [a \in 0..(RamSize - 1) |->
                 IF a >= ProgramStart /\ a < ProgramStart + BufferSize
                 THEN 0 ELSE ram[a]]
    /\ io' = [io EXCEPT !.last = "load_game", !.image = image]
    /\ hist' = [hist EXCEPT !.steps = @ + 1]
    /\ UNCHANGED <<vram, stack, sp, v, i, pc, delay_timer, sound_timer, key,
                   build, panicked, beep, diag, opcode, prev>>

(* Chip8::set_keys: "unimplemented!()", a panic.                           *)
SetKeys ==
    /\ ~panicked
    /\ panicked' = TRUE
    /\ io' = [io EXCEPT !.last = "set_keys"]
    /\ hist' = [hist EXCEPT !.steps = @ + 1]
    /\ UNCHANGED <<machine, build, beep, diag, opcode, prev>>

(* Subroutine calls and returns, to the full depth of the stack and one    *)
(* call beyond it.                                                         *)
MaxCallSteps == 35
CallOps == {8960, 238}     \* 2300, 00EE
NextCall == hist.steps < MaxCallSteps /\ \E op \in CallOps : Execute(op)
SpecCall == Init /\ [][NextCall]_vars

(* The conditional skips, with the registers set up to make each condition *)
(* hold and fail: 3005 4005 5010 9010 E0A1 E09E E0E9, 6005 6105 6011.      *)
MaxSkipSteps == 4
SkipOps == {12293, 16389, 20496, 36880, 57505, 57502, 57577, 24581, 24837, 24593}
NextSkip == hist.steps < MaxSkipSteps /\ \E op \in SkipOps : Execute(op)
SpecSkip == Init /\ [][NextSkip]_vars

----------------------------------------------------------------------------
(* The conditional skips of the instruction set and the condition of each, *)
(* read in the registers and keymask s the instruction finds.              *)
IsSkip(op) ==
    \/ Family(op) \in {12288, 16384}
    \/ Family(op) \in {20480, 36864} /\ LowNibble(op) = 0
    \/ Family(op) = 57344 /\ LowByte(op) \in {158, 161}

SkipHolds(op, s) ==
    LET x == XOf(op)
        y == YOf(op)
        pressed == (s.key \div Pow2(s.v[x] % 16)) % 2 = 1
    IN  CASE Family(op) = 12288 -> s.v[x] = LowByte(op)
          [] Family(op) = 16384 -> s.v[x] # LowByte(op)
          [] Family(op) = 20480 -> s.v[x] = s.v[y]
          [] Family(op) = 36864 -> s.v[x] # s.v[y]
          [] Family(op) = 57344 /\ LowByte(op) = 158 -> pressed
          [] Family(op) = 57344 /\ LowByte(op) = 161 -> ~pressed

(* C1: a conditional skip executed at PC = p leaves PC = p + 4 when its    *)
(* condition holds and PC = p + 2 when it does not.                        *)
SkipAdvancesPC ==
    (opcode # -1 /\ IsSkip(opcode) /\ ~panicked) =>
        pc = prev.pc + (IF SkipHolds(opcode, prev) THEN 4 ELSE 2)

(* C2: a return that matches a call leaves PC at the instruction after     *)
(* that call and SP at the depth the call was made from, at every depth    *)
(* 1..16 of nesting.                                                       *)
ReturnResumesAfterCall ==
    (opcode = 238 /\ ~panicked /\ hist.site # -1) =>
        (pc = hist.site + 2 /\ sp = Len(hist.sites))

(* C3: SP stays within 0..16; a call at SP = 16 and a return at SP = 0 end *)
(* in an error and leave SP, the stack and PC as they were.                *)
StackPointerBounded ==
    /\ sp \in 0..StackSize
    /\ (opcode # -1 /\ Family(opcode) = 8192 /\ prev.sp = StackSize) =>
          (panicked /\ sp = prev.sp /\ stack = prev.stack /\ pc = prev.pc)
    /\ (opcode = 238 /\ prev.sp = 0) =>
          (panicked /\ sp = prev.sp /\ stack = prev.stack /\ pc = prev.pc)

(* C4, C5, C8: one word of every kind of arm: 0000 8018 E0FF F0FF (matched *)
(* by no arm), 00E0 6005 7001 8010 A300 C00F D011 F007 F015 F018 F01E F029 *)
(* F033 F155 F165 (straight-line), F00A 1200 B300.                         *)
MaxFrameSteps == 3
FrameOps ==
    {0, 32792, 57599, 61695, 224, 24581, 28673, 32784, 41728, 49167, 53265,
     61447, 61461, 61464, 61470, 61481, 61491, 61781, 61797, 61450, 4608, 45824}
NextFrame == hist.steps < MaxFrameSteps /\ \E op \in FrameOps : Execute(op)
SpecFrame == Init /\ [][NextFrame]_vars

(* The words execute matches to one of its "Unknown opcode" arms.          *)
Unrecognized(op) ==
    \/ Family(op) = 0 /\ LowByte(op) \notin {224, 238}
    \/ Family(op) = 32768 /\ LowNibble(op) \notin {0, 1, 2, 3, 4, 5, 6, 7, 14}
    \/ Family(op) = 57344 /\ LowByte(op) \notin {233, 161}
    \/ Family(op) = 61440 /\ LowByte(op) \notin {7, 10, 21, 24, 30, 41, 51, 85, 101}

IsStraightLine(op) ==
    \/ op = 224
    \/ Family(op) \in {24576, 28672, 40960, 49152, 53248}
    \/ Family(op) = 32768 /\ LowNibble(op) \in {0, 1, 2, 3, 4, 5, 6, 7, 14}
    \/ Family(op) = 61440 /\ LowByte(op) \in {7, 21, 24, 30, 41, 51, 85, 101}

(* C5: a straight-line instruction executed at PC = p leaves PC = p + 2.   *)
StraightLineAdvancesPC ==
    (opcode # -1 /\ IsStraightLine(opcode) /\ ~panicked) => pc = prev.pc + 2

LoadsDelay(op) == Family(op) = 61440 /\ LowByte(op) = 21
LoadsSound(op) == Family(op) = 61440 /\ LowByte(op) = 24

MaxArithSteps == 3
ArithOps ==
    {24831, 24581, 24577, 24834, 24841, 24833, 28417,
     32788, 32789, 32791, 33012, 33028, 32772, 36612, 36629}
NextArith == hist.steps < MaxArithSteps /\ \E op \in ArithOps : Execute(op)
SpecArith == Init /\ [][NextArith]_vars

IsSub(op) == Family(op) = 32768 /\ LowNibble(op) \in {5, 7}
IsAdd(op) == Family(op) = 32768 /\ LowNibble(op) = 4

(* C6: after 8XY5 (8XY7) VF is 1 iff VX >= VY (VY >= VX), 0 otherwise, and *)
(* VX holds the difference modulo 256.                                     *)
SubtractionFlag ==
    (opcode # -1 /\ IsSub(opcode)) =>
        LET x == XOf(opcode)
            y == YOf(opcode)
            minuend == IF LowNibble(opcode) = 5 THEN prev.v[x] ELSE prev.v[y]
            subtrahend == IF LowNibble(opcode) = 5 THEN prev.v[y] ELSE prev.v[x]
        IN  /\ v[15] = (IF minuend >= subtrahend THEN 1 ELSE 0)
            /\ x # 15 => v[x] = (minuend - subtrahend + 256) % 256

(* C7: after 8XY4 with X # F, VX is (VX + VY) mod 256, VF is 1 iff the sum *)
(* exceeds 255, and every other register is as it was.                     *)
AdditionCarry ==
    (opcode # -1 /\ IsAdd(opcode) /\ XOf(opcode) # 15) =>
        LET x == XOf(opcode)
            sum == prev.v[x] + prev.v[YOf(opcode)]
        IN  /\ v[x] = sum % 256
            /\ v[15] = (IF sum > 255 THEN 1 ELSE 0)
            /\ \A r \in 0..14 : r # x => v[r] = prev.v[r]

AdditionCarried ==
    /\ opcode = 32788
    /\ prev.v[0] = 255 /\ prev.v[1] = 2
    /\ v[0] = 1 /\ v[15] = 1

(* C9, C10: the timers loaded and run down: 6002 6005 F015 F018 0000.      *)
MaxTimerSteps == 7
TimerOps == {24578, 24581, 61461, 61464, 0}
NextTimer == hist.steps < MaxTimerSteps /\ \E op \in TimerOps : Execute(op)
SpecTimer == Init /\ [][NextTimer]_vars

(* C9: a timer loaded with n and updated k times since reads max(n - k, 0).*)
TimerCountsDown ==
    /\ delay_timer = Max(hist.dload - hist.dticks, 0)
    /\ sound_timer = Max(hist.sload - hist.sticks, 0)

DelayRanOut ==
    /\ hist.dload = 5 /\ hist.dticks = 6 /\ delay_timer = 0
    /\ opcode = 0 /\ prev.delay_timer = 0

(* C10: a call beeps exactly when its timer update takes the sound timer   *)
(* from 1 to 0, and over a run there is one beep for each such update.     *)
BeepOnExpiry ==
    /\ beep <=> (prev.ticked /\ prev.tick_sound = 1 /\ sound_timer = 0)
    /\ hist.beeps = hist.expired

BeepAfterSilentTick ==
    /\ beep /\ hist.beeps = 1 /\ hist.sload = 2 /\ hist.sticks = 2
    /\ prev.tick_sound = 1 /\ sound_timer = 0

----------------------------------------------------------------------------
(* C11: the random instruction: C000 C00F C0FF C1F0.                       *)
MaxRandSteps == 3
RandOps == {49152, 49167, 49407, 49648}
NextRand == hist.steps < MaxRandSteps /\ \E op \in RandOps : Execute(op)
SpecRand == Init /\ [][NextRand]_vars

(* C11: after CXNN, VX is the drawn byte ANDed with NN, so no bit that is  *)
(* 0 in NN is 1 in VX.                                                     *)
RandomIsMasked ==
    (opcode # -1 /\ Family(opcode) = 49152 /\ ~panicked) =>
        /\ v[XOf(opcode)] = BitAnd(io.entropy, LowByte(opcode))
        /\ BitAnd(v[XOf(opcode)], 255 - LowByte(opcode)) = 0

(* C12: jumps to the top of memory and past it, and the fetch that         *)
(* follows: 1FFE 1FFF BFFF 60FF 6000 (the last word of ram is at 0xFFE).   *)
MaxFetchSteps == 4
FetchOps == {8190, 8191, 49151, 24831, 24576}
NextFetch ==
    /\ hist.steps < MaxFetchSteps
    /\ \/ \E op \in FetchOps : Execute(op)
       \/ FetchOpcode
SpecFetch == Init /\ [][NextFetch]_vars

(* C12: PC is always an offset into ram, and every fetch reads its two     *)
(* bytes inside ram.                                                       *)
PCInsideMemory ==
    /\ InBounds(pc, RamSize)
    /\ io.last = "fetch_opcode" => (~panicked /\ InBounds(pc + 1, RamSize))

(* C13: registers dumped, changed and loaded back: 6005 6109 6107 A300     *)
(* F155 F165 FF55 FF65.                                                    *)
MaxBlockSteps == 4
BlockOps == {24581, 24841, 24839, 41728, 61781, 61797, 65365, 65381}
NextBlock == hist.steps < MaxBlockSteps /\ \E op \in BlockOps : Execute(op)
SpecBlock == Init /\ [][NextBlock]_vars

(* C13: FX65 after FX55 with the same I and X (register instructions may   *)
(* run in between) leaves V0..VX as they were at the dump, with            *)
(* memory[I + j] = Vj for j in 0..X, and leaves the registers above VX     *)
(* untouched.                                                              *)
DumpLoadRoundTrip ==
    hist.reload =>
        \A j \in 0..(NumRegs - 1) :
            IF j <= hist.dumpx
            THEN v[j] = hist.dumpv[j] /\ ram[i + j] = hist.dumpv[j]
            ELSE v[j] = prev.v[j]

RegisterRestored ==
    /\ hist.reload /\ hist.dumpx = 1 /\ opcode = 61797
    /\ hist.dumpv[1] = 9 /\ prev.v[1] = 7 /\ v[1] = 9

(* C14, C20: memory reached through I, in the middle of ram and at its     *)
(* end: 609D 6007 A300 AFFE AFFF F01E F033 F155 F165.                      *)
MaxIndexSteps == 3
IndexOps == {24733, 24583, 41728, 45054, 45055, 61470, 61491, 61781, 61797}
NextIndex == hist.steps < MaxIndexSteps /\ \E op \in IndexOps : Execute(op)
SpecIndex == Init /\ [][NextIndex]_vars

IsBcd(op) == Family(op) = 61440 /\ LowByte(op) = 51
IsIndexed(op) == Family(op) = 61440 /\ LowByte(op) \in {51, 85, 101}

(* C14: FX33 writes the hundreds, tens and ones digits of VX to            *)
(* memory[I], memory[I + 1], memory[I + 2] and changes no other memory     *)
(* cell and no register.                                                   *)
BcdStore ==
    [][(opcode' # -1 /\ IsBcd(opcode') /\ ~panicked') =>
          LET val == v[XOf(opcode')]
          IN  /\ ram' = [ram EXCEPT ![i] = val \div 100,
                                    ![i + 1] = (val \div 10) % 10,
                                    ![i + 2] = val % 10]
              /\ UNCHANGED <<v, i>>]_vars

BcdOf157 ==
    /\ opcode = 61491 /\ ~panicked /\ prev.v[0] = 157
    /\ ram[i] = 1 /\ ram[i + 1] = 5 /\ ram[i + 2] = 7

(* C20: FX33, FX55 and FX65 stay inside ram for every I that ANNN and FX1E *)
(* can set, and do not crash.                                              *)
IndexedAccessInside ==
    (opcode # -1 /\ IsIndexed(opcode)) =>
        (~panicked /\ prev.i + (IF IsBcd(opcode) THEN 2 ELSE XOf(opcode)) < RamSize)

(* C15, C19: the font seeded, a program image loaded over memory that      *)
(* instructions have written, and sprites drawn from the font: A200 6005   *)
(* 603E F055 D001 D004.                                                    *)
MaxLoadSteps == 3
LoadOps == {41472, 24581, 24638, 61525, 53249, 53252}
Images == {<<>>, <<18>>, <<0, 224>>, <<162, 0, 208, 5>>}
NextLoad ==
    /\ hist.steps < MaxLoadSteps
    /\ \/ \E op \in LoadOps : Execute(op)
       \/ Initialize
       \/ \E image \in Images : LoadGame(image)
SpecLoad == Init /\ [][NextLoad]_vars

(* C15: loading an image copies it to memory from 0x200 on and leaves the  *)
(* 80 font bytes as they were.                                             *)
ProgramLoadedVerbatim ==
    [][io'.last = "load_game" =>
          /\ \A k \in 1..Len(io'.image) :
                ram'[ProgramStart + k - 1] = io'.image[k]
          /\ \A a \in 0..(FontSize - 1) : ram'[a] = ram[a]]_vars

(* The pixel DXYN draws at cell p of the video buffer (row p \div 64,      *)
(* column p % 64): bit 7 - b of sprite row r when the cell is b columns    *)
(* right of VX and r rows below VY, wrapping on both axes; rows 0..N.      *)
SpritePixel(rm, base, x0, y0, n, p) ==
    LET r == ((p \div 64) - y0) % 32
        b == ((p % 64) - x0) % 64
    IN  IF r <= n /\ b <= 7 /\ InBounds(base + r, RamSize)
        THEN (rm[base + r] \div Pow2(7 - b)) % 2
        ELSE 0

IsDraw(op) == Family(op) = 53248

(* C19: DXYN XORs the sprite at I onto the video buffer at (VX, VY) with   *)
(* wraparound, and sets VF to 1 iff a set pixel was cleared, 0 otherwise.  *)
DrawXorsSprite ==
    [][(io'.last = "execute" /\ IsDraw(opcode') /\ ~panicked') =>
          LET x0 == v[XOf(opcode')]
              y0 == v[YOf(opcode')]
              n == LowNibble(opcode')
              px(p) == SpritePixel(ram, i, x0, y0, n, p)
          IN  /\ vram' = [p \in 0..(VramSize - 1) |-> (vram[p] + px(p)) % 2]
              /\ v'[15] = (IF \E p \in 0..(VramSize - 1) :
                                 vram[p] = 1 /\ px(p) = 1
                           THEN 1 ELSE 0)]_vars

(* C16: the key wait and the host's key report: F00A F10A 6005 7101 E0A1.  *)
MaxKeySteps == 4
KeyOps == {61450, 61706, 24581, 28929, 57505}
NextKey ==
    /\ hist.steps < MaxKeySteps
    /\ \/ \E op \in KeyOps : Execute(op)
       \/ SetKeys
SpecKey == Init /\ [][NextKey]_vars

IsKeyWait(op) == Family(op) = 61440 /\ LowByte(op) = 10

(* C16: FX0A leaves PC and the registers alone while no key is down; the   *)
(* host can report a key, and the FX0A step that finds key k down stores k *)
(* in VX and advances PC by 2.                                             *)
KeyWaitResumes ==
    /\ io.last = "set_keys" => ~panicked
    /\ (io.last = "execute" /\ IsKeyWait(opcode) /\ prev.key = 0) =>
          (pc = prev.pc /\ v = prev.v /\ ~panicked)
    /\ (io.last = "execute" /\ IsKeyWait(opcode) /\ prev.key # 0) =>
          /\ pc = prev.pc + 2
          /\ v[XOf(opcode)] \in 0..15
          /\ (prev.key \div Pow2(v[XOf(opcode)])) % 2 = 1

(* C17: the shifts, on VX and on VF itself: 6003 6081 6F03 6F81 8006 800E  *)
(* 8F06 8F0E.                                                              *)
MaxShiftSteps == 3
ShiftOps == {24579, 24705, 28419, 28545, 32774, 32782, 36614, 36622}
NextShift == hist.steps < MaxShiftSteps /\ \E op \in ShiftOps : Execute(op)
SpecShift == Init /\ [][NextShift]_vars

IsShift(op) == Family(op) = 32768 /\ LowNibble(op) \in {6, 14}

(* C17: after 8XY6 (8XYE) VF is bit 0 (bit 7) of the old VX, also when X   *)
(* is F, and for X # F VX is the old VX shifted one place with zero fill.  *)
ShiftFlag ==
    (opcode # -1 /\ IsShift(opcode)) =>
        LET x == XOf(opcode)
            old == prev.v[x]
            right == LowNibble(opcode) = 6
        IN  /\ v[15] = (IF right THEN old % 2 ELSE old \div 128)
            /\ x # 15 => v[x] = (IF right THEN old \div 2 ELSE (old * 2) % 256)

(* C18: in family E exactly the low bytes 9E and A1 are instructions, and  *)
(* each tests a key for every value of VX without error.                   *)
KeySkipDecoding ==
    (opcode # -1 /\ Family(opcode) = 57344) =>
        /\ diag <=> LowByte(opcode) \notin {158, 161}
        /\ ~panicked

============================================================================
